---- MODULE Spec2Model ----
(***************************************************************************)
(* Model of TELR_sv.py: parsing of the structural-variant record stream,   *)
(* removal of redundant calls per locus (rm_vcf_redundancy), and the        *)
(* RepeatMasker-based filter with its audit log (filter_vcf).               *)
(*                                                                         *)
(* Representation.                                                         *)
(*  - A text line of a tab-separated file is the tuple of its fields.  A   *)
(*    line with fewer than 13 fields is a shorter tuple; pandas.read_csv   *)
(*    with names=header gives such a row NaN in the trailing columns, so a  *)
(*    column is NaN in a row exactly when its position exceeds the row's    *)
(*    length (IsNa).                                                        *)
(*  - Numeric fields are integers (read_csv's type inference); the allele   *)
(*    frequency is fixed-point, in units of 1/AFOne.                        *)
(*  - A read-name field is kept at character level (a tuple of characters, *)
(*    "," being the separator) so that join and split are computed.         *)
(*  - A locus label "chr_start_end" is the triple <<chr, start, end>>.     *)
(***************************************************************************)
EXTENDS Integers, Sequences, FiniteSets, TLC

VARIABLES raw, merged, insSeqs, report, accepted, auditLog, files, pc, runs

vars == <<raw, merged, insSeqs, report, accepted, auditLog, files, pc, runs>>

(* ------------------------------ bounds --------------------------------- *)

MaxRecs == 3

MaxReportLines == 2

MaxRuns == 2

MaxRunRecs == 2

(* ----------------------------- constants -------------------------------- *)

header == <<"chr", "start", "end", "length", "coverage", "AF", "ID", "seq",
            "reads", "filter", "genotype", "ref_count", "alt_count">>

NumFields == 13

AFOne == 10

ToolToken == <<"RepeatMasker">>

Reason == "VCF sequence not repeatmasked"

Sep == ","

(* ------------------------- generic helpers ------------------------------ *)

Range(s) == {s[i] : i \in DOMAIN s}

RECURSIVE SumSeq(_)
SumSeq(s) == IF s = <<>> THEN 0 ELSE Head(s) + SumSeq(Tail(s))

Orderings(S) ==
    {f \in [1..Cardinality(S) -> S] : \A i, j \in DOMAIN f : i # j => f[i] # f[j]}

(* ------------------------- rows and columns ----------------------------- *)

Col(name) == CHOOSE i \in DOMAIN header : header[i] = name

IsNa(row, name) == Col(name) > Len(row)

(* read_csv keeps every line as a row; missing trailing fields are NaN    *)
(* (see IsNa).                                                            *)
read_csv(lines) == lines

(* groupby leaves out the rows in which a key column is NaN.              *)
HasKey(row) == ~IsNa(row, "chr") /\ ~IsNa(row, "start") /\ ~IsNa(row, "end")

(* Faulty variant of GroupKey: the end coordinate left out of the key.    *)
GroupKeyNoEnd(row) == <<row[Col("chr")], row[Col("start")]>>

GroupKey(row) == <<row[Col("chr")], row[Col("start")], row[Col("end")]>>

Label(entry) == <<entry[1], entry[2], entry[3]>>

(* groupby returns the groups sorted by key; chromosome names compare as  *)
(* strings.                                                               *)
ChromOrder == <<"chr1", "chr2">>

ChromRank(c) == CHOOSE i \in DOMAIN ChromOrder : ChromOrder[i] = c

KeyLess(a, b) ==
    \E i \in DOMAIN a :
        /\ \A j \in 1..(i - 1) : a[j] = b[j]
        /\ IF i = 1 THEN ChromRank(a[i]) < ChromRank(b[i]) ELSE a[i] < b[i]

SortedKeys(K) ==
    CHOOSE s \in Orderings(K) : \A i, j \in DOMAIN s : i < j => KeyLess(s[i], s[j])

(* ----------------------------- reducers --------------------------------- *)

RECURSIVE Join(_)
Join(list) ==
    IF list = <<>> THEN <<>>
    ELSE IF Len(list) = 1 THEN list[1]
    ELSE list[1] \o <<Sep>> \o Join(Tail(list))

RECURSIVE Split(_)
Split(str) ==
    IF \A i \in DOMAIN str : str[i] # Sep THEN <<str>>
    ELSE LET p == CHOOSE i \in DOMAIN str :
                      str[i] = Sep /\ \A j \in 1..(i - 1) : str[j] # Sep
         IN <<SubSeq(str, 1, p - 1)>> \o Split(SubSeq(str, p + 1, Len(str)))

(* Faulty variant of get_unique_list: the list returned as it is.         *)
get_unique_list_dups(list1) == {list1}

(* list(set(list1)): the order of a set is arbitrary, so the result is    *)
(* any ordering of the distinct elements.                                 *)
get_unique_list(list1) == Orderings(Range(list1))

(* The set of strings id_merge may return.                                *)
id_merge(strings) == {Join(ids) : ids \in get_unique_list(Split(Join(strings)))}

(* Faulty variant of af_sum: no clamp.                                    *)
af_sum_noclamp(nums) == SumSeq(nums)

af_sum(nums) ==
    LET sum_nums == SumSeq(nums)
    IN IF sum_nums > AFOne THEN AFOne ELSE sum_nums

Present(g, name) == SelectSeq(g, LAMBDA r : ~IsNa(r, name))

Column(g, name) == [i \in DOMAIN g |-> g[i][Col(name)]]

(* "first": the first non-NaN value of the column in the group; an all-NaN *)
(* column gives NaN, which to_csv writes as the empty field.               *)
agg_first(g, name) ==
    IF Present(g, name) = <<>> THEN "" ELSE Present(g, name)[1][Col(name)]

(* Faulty variant of agg_sum: the first value instead of the sum.         *)
agg_sum_first(g, name) ==
    IF Present(g, name) = <<>> THEN 0 ELSE Present(g, name)[1][Col(name)]

(* "sum": the sum of the non-NaN values of the column, 0 when there is     *)
(* none.                                                                  *)
agg_sum(g, name) == SumSeq(Column(Present(g, name), name))

(* --------------------------- rm_vcf_redundancy --------------------------- *)

Groups(df) == {GroupKey(r) : r \in {x \in Range(df) : HasKey(x)}}

GroupRows(df, key) == SelectSeq(df, LAMBDA r : HasKey(r) /\ GroupKey(r) = key)

(* Faulty variant of RaisesTypeError: an empty frame raises as well.       *)
RaisesOnEmptyInput(df) ==
    df = <<>> \/ \E i \in DOMAIN df : HasKey(df[i]) /\ IsNa(df[i], "reads")

(* ",".join(strings) raises TypeError when a row of a group has NaN for    *)
(* its read names (a line of 3 to 8 fields); agg propagates it.            *)
RaisesTypeError(df) == \E i \in DOMAIN df : HasKey(df[i]) /\ IsNa(df[i], "reads")

MergedRows(df, key) ==
    LET g == GroupRows(df, key)
    IN {key \o << agg_first(g, "length"),
                  agg_sum(g, "coverage"),
                  af_sum(Column(g, "AF")),
                  agg_first(g, "ID"),
                  agg_first(g, "seq"),
                  reads,
                  agg_first(g, "filter"),
                  agg_first(g, "genotype"),
                  agg_sum(g, "ref_count"),
                  agg_sum(g, "alt_count") >> :
           reads \in id_merge(Column(g, "reads"))}

(* The tables rm_vcf_redundancy may write: one row per group, in key      *)
(* order, each with one of the possible read-name strings.                *)
RECURSIVE Tables(_, _)
Tables(df, ks) ==
    IF ks = <<>> THEN {<<>>}
    ELSE {<<row>> \o rest : row \in MergedRows(df, Head(ks)), rest \in Tables(df, Tail(ks))}

rm_vcf_redundancy(vcf_in) ==
    Tables(read_csv(vcf_in), SortedKeys(Groups(read_csv(vcf_in))))

(* ------------------------------ filter_vcf ------------------------------- *)

write_ins_seqs(vcf) == [i \in DOMAIN vcf |-> <<Label(vcf[i]), vcf[i][8]>>]

(* "RepeatMasker" in line: the token occurs in the line.  A report line   *)
(* is the tuple of its fields, the first one a locus label.               *)
Tagged(line) == \E i \in DOMAIN line : line[i] = ToolToken

(* Faulty variant of ins_te_loci: the token is not looked for.            *)
ins_te_loci_untagged(rep) == {rep[i][1] : i \in DOMAIN rep}

ins_te_loci(rep) == {rep[i][1] : i \in {j \in DOMAIN rep : Tagged(rep[j])}}

(* Faulty variant of write_filtered: every line is written.               *)
write_all(ins, loci) == ins

write_filtered(ins, loci) == SelectSeq(ins, LAMBDA entry : Label(entry) \in loci)

(* TELR_utility.create_loci_set: the set of labels of the table's rows.   *)
create_loci_set(ins) == {Label(ins[i]) : i \in DOMAIN ins}

AuditLine(locus) == <<locus, Reason>>

RemovedLoci(ins, loci) == {locus \in create_loci_set(ins) : locus \notin loci}

(* Faulty variant of open_append: the file opened with mode "w".          *)
open_write(old, lines) == lines

open_append(old, lines) == old \o lines

(* ------------------------------- inputs ---------------------------------- *)

KeyA == <<"chr1", 100, 150>>

KeyB == <<"chr1", 100, 160>>

KeyC == <<"chr2", 100, 150>>

Keys == {KeyA, KeyB, KeyC}

Call1 == <<50, 3, 6, "ins1", "ACGT", <<"a", ",", "b">>, "PASS", " 0/1", 3, 2>>

Call2 == <<40, 2, 3, "ins2", "TTGA", <<"b">>, "PASS", " 1/1", 1, 4>>

FullLines == {KeyA \o Call1, KeyA \o Call2, KeyB \o Call1, KeyC \o Call2}

ShortLens == {2, 8, 12}

ShortOf == KeyA \o Call1

ShortLines == {SubSeq(ShortOf, 1, n) : n \in ShortLens}

LineSet == FullLines \cup ShortLines

SeqsUpTo(S, n) == UNION {[1..k -> S] : k \in 0..n}

Raws == SeqsUpTo(LineSet, MaxRecs)

RunLineSet == {KeyA \o Call1, SubSeq(KeyA \o Call1, 1, 8), KeyB \o Call2}

RunRaws == SeqsUpTo(RunLineSet, MaxRunRecs)

ReportLineSet == { <<KeyA, <<"TELR">>, ToolToken>>,
                   <<KeyB, <<"TELR">>, ToolToken>>,
                   <<KeyA, <<"TELR">>, <<"note">>>> }

Reports == SeqsUpTo(ReportLineSet, MaxReportLines)

(* ------------------------------- actions --------------------------------- *)

(* parse_vcf: rm_vcf_redundancy writes the merged table, the raw query    *)
(* output is removed.                                                     *)
ParseVcfOk ==
    /\ pc = "start"
    /\ ~RaisesTypeError(read_csv(raw))
    /\ \E df2 \in rm_vcf_redundancy(raw) : merged' = df2
    /\ files' = (files \ {"raw"}) \cup {"parsed"}
    /\ pc' = "parsed"
    /\ UNCHANGED <<raw, insSeqs, report, accepted, auditLog, runs>>

(* parse_vcf: id_merge raises; nothing is written, the exception leaves   *)
(* vcf_parse_filter.                                                      *)
ParseVcfTypeError ==
    /\ pc = "start"
    /\ RaisesTypeError(read_csv(raw))
    /\ pc' = "TypeError"
    /\ UNCHANGED <<raw, merged, insSeqs, report, accepted, auditLog, files, runs>>

(* Faulty variant of FilterVcfExit: the missing report is taken for an    *)
(* empty one and the partition goes on.                                   *)
FilterVcfNoReportCheck ==
    /\ pc = "parsed"
    /\ report' = <<>>
    /\ accepted' = write_filtered(merged, {})
    /\ \E order \in Orderings(RemovedLoci(merged, {})) :
         auditLog' = open_append(auditLog, [i \in DOMAIN order |-> AuditLine(order[i])])
    /\ insSeqs' = <<>>
    /\ files' = (files \ {"parsed"}) \cup {"ins_filtered"}
    /\ pc' = "done"
    /\ UNCHANGED <<raw, merged, runs>>

(* filter_vcf: the sequences are written, RepeatMasker is called, its     *)
(* report cannot be opened: sys.exit(1).                                  *)
FilterVcfExit ==
    /\ pc = "parsed"
    /\ insSeqs' = write_ins_seqs(merged)
    /\ report' = <<>>
    /\ files' = files \cup {"ins_seqs"}
    /\ pc' = "exit1"
    /\ UNCHANGED <<raw, merged, accepted, auditLog, runs>>

(* filter_vcf with a report: evidence set, accepted lines, removal of the  *)
(* sequence file, audit lines appended in the order of a set; then         *)
(* vcf_parse_filter removes the merged table.                             *)
FilterVcfOk ==
    /\ pc = "parsed"
    /\ \E rep \in Reports :
        LET loci == ins_te_loci(rep)
        IN /\ report' = rep
           /\ accepted' = write_filtered(merged, loci)
           /\ \E order \in Orderings(RemovedLoci(merged, loci)) :
                auditLog' = open_append(auditLog,
                                        [i \in DOMAIN order |-> AuditLine(order[i])])
    /\ insSeqs' = <<>>
    /\ files' = (files \ {"parsed"}) \cup {"report", "ins_filtered"}
    /\ pc' = "done"
    /\ UNCHANGED <<raw, merged, runs>>

(* The pipeline is run for another sample with the same audit log.        *)
NextRun ==
    /\ pc \in {"done", "exit1", "TypeError"}
    /\ runs < MaxRuns
    /\ runs' = runs + 1
    /\ \E r \in RunRaws : raw' = r
    /\ merged' = <<>>
    /\ insSeqs' = <<>>
    /\ report' = <<>>
    /\ accepted' = <<>>
    /\ files' = {"raw"}
    /\ pc' = "start"
    /\ UNCHANGED auditLog

Init ==
    /\ raw \in Raws
    /\ merged = <<>>
    /\ insSeqs = <<>>
    /\ report = <<>>
    /\ accepted = <<>>
    /\ auditLog = <<>>
    /\ files = {"raw"}
    /\ pc = "start"
    /\ runs = 1

Next == ParseVcfOk \/ ParseVcfTypeError \/ FilterVcfExit \/ FilterVcfOk

Spec == Init /\ [][Next]_vars

InitRuns ==
    /\ raw \in RunRaws
    /\ merged = <<>>
    /\ insSeqs = <<>>
    /\ report = <<>>
    /\ accepted = <<>>
    /\ auditLog = <<>>
    /\ files = {"raw"}
    /\ pc = "start"
    /\ runs = 1

NextRuns == ParseVcfOk \/ ParseVcfTypeError \/ FilterVcfExit \/ FilterVcfOk \/ NextRun

SpecRuns == InitRuns /\ [][NextRuns]_vars

(* ------------------------- helpers of the properties -------------------- *)

IsPrefix(s, t) == Len(s) <= Len(t) /\ SubSeq(t, 1, Len(s)) = s

MergedWritten == pc \in {"parsed", "done", "exit1"}

WellFormed(lines) == \A i \in DOMAIN lines : Len(lines[i]) = NumFields

Members(lines, locus) == SelectSeq(lines, LAMBDA r : Len(r) >= 3 /\ Label(r) = locus)

Loci(lines) == {Label(r) : r \in {x \in Range(lines) : Len(x) >= 3}}

PresentSum(lines, name) ==
    SumSeq([i \in DOMAIN Present(lines, name) |-> Present(lines, name)[i][Col(name)]])

Names(str) == Range(Split(str))

Min(a, b) == IF a <= b THEN a ELSE b

Added == SubSeq(auditLog', Len(auditLog) + 1, Len(auditLog'))

Totals(t) ==
    {<<Label(t[j]), t[j][Col("coverage")], t[j][Col("ref_count")], t[j][Col("alt_count")]>> :
        j \in DOMAIN t}

CallView(r) ==
    <<Label(r), r[Col("coverage")], r[Col("AF")], Names(r[Col("reads")]),
      r[Col("ref_count")], r[Col("alt_count")]>>

(* -------------------------------- claims -------------------------------- *)

(* C1: once the merged table is written from well-formed records, it has   *)
(* exactly one row per distinct locus key of the input, every input record *)
(* has exactly one merged row with its key, no merged row has a key absent *)
(* from the input, and each merged row counts each of its members once.    *)
C1_GroupingPartitionsInput ==
    (MergedWritten /\ WellFormed(raw)) =>
        /\ \A i \in DOMAIN raw :
               Cardinality({j \in DOMAIN merged : Label(merged[j]) = Label(raw[i])}) = 1
        /\ \A j \in DOMAIN merged : \E i \in DOMAIN raw : Label(raw[i]) = Label(merged[j])
        /\ Len(merged) = Cardinality({Label(raw[i]) : i \in DOMAIN raw})
        /\ \A j \in DOMAIN merged :
               merged[j][Col("coverage")] =
                   PresentSum(Members(raw, Label(merged[j])), "coverage")

C1_Witness ==
    /\ MergedWritten
    /\ WellFormed(raw)
    /\ Len(raw) = 3
    /\ Len(merged) = 2

(* C2: a successful filtering step puts every locus of the merged table in *)
(* exactly one outcome: its row is in the accepted output iff its label is *)
(* the first field of a report line carrying the tool token; otherwise     *)
(* exactly one audit line for it is appended to the log.                   *)
C2_FilterPartitionsLoci ==
    [][(pc = "parsed" /\ pc' = "done") =>
        LET ev == {l \in Loci(merged) :
                      \E i \in DOMAIN report' : report'[i][1] = l /\ Tagged(report'[i])}
        IN /\ IsPrefix(auditLog, auditLog')
           /\ \A j \in DOMAIN merged :
                LET l == Label(merged[j])
                    inAccepted == \E a \in DOMAIN accepted' : accepted'[a] = merged[j]
                    logged == Cardinality({a \in DOMAIN Added : Added[a] = <<l, Reason>>})
                IN /\ inAccepted <=> l \in ev
                   /\ l \in ev => logged = 0
                   /\ l \notin ev => logged = 1
           /\ \A a \in DOMAIN accepted' : Label(accepted'[a]) \in ev
           /\ \A a \in DOMAIN Added : \E j \in DOMAIN merged :
                Added[a] = <<Label(merged[j]), Reason>>
      ]_vars

C2_Witness ==
    /\ pc = "done"
    /\ accepted # <<>>
    /\ \E i \in DOMAIN report :
          /\ ~Tagged(report[i])
          /\ report[i][1] \in Loci(merged) \ Loci(accepted)
          /\ <<report[i][1], Reason>> \in Range(auditLog)

(* C3 as stated: the accepted output holds the original unmerged rows of   *)
(* the accepted loci, one row per original call, each with the call's own  *)
(* coverage, AF, read names, ref_count and alt_count (read names compared  *)
(* as sets).                                                               *)
C3_AcceptedHoldsUnmergedRows ==
    (pc = "done" /\ WellFormed(raw)) =>
        LET calls == SelectSeq(raw, LAMBDA r : Label(r) \in ins_te_loci(report))
        IN [a \in DOMAIN accepted |-> CallView(accepted[a])] =
           [i \in DOMAIN calls |-> CallView(calls[i])]

(* C3 amended: the accepted output holds, for every accepted locus, exactly *)
(* one row, the merged row of the locus with the aggregated coverage,       *)
(* ref_count and alt_count of its calls, and no other row.                  *)
C3_AcceptedHoldsMergedRows ==
    pc = "done" =>
        /\ accepted = SelectSeq(merged, LAMBDA r : Label(r) \in ins_te_loci(report))
        /\ \A a \in DOMAIN accepted :
            LET l == Label(accepted[a])
                calls == Members(raw, l)
            IN /\ Cardinality({b \in DOMAIN accepted : Label(accepted[b]) = l}) = 1
               /\ accepted[a][Col("coverage")] = PresentSum(calls, "coverage")
               /\ accepted[a][Col("ref_count")] = PresentSum(calls, "ref_count")
               /\ accepted[a][Col("alt_count")] = PresentSum(calls, "alt_count")

C3_Witness ==
    /\ pc = "done"
    /\ WellFormed(raw)
    /\ \E a \in DOMAIN accepted : Len(Members(raw, Label(accepted[a]))) >= 2
    /\ Len(accepted) < Len(merged)

(* C4: the merged allele frequency of every locus group is the smaller of  *)
(* 1 and the sum of its members' allele frequencies, and lies in [0,1].    *)
C4_AlleleFrequencyClamped ==
    MergedWritten =>
        \A j \in DOMAIN merged :
            LET s == PresentSum(Members(raw, Label(merged[j])), "AF")
            IN /\ merged[j][Col("AF")] = Min(AFOne, s)
               /\ merged[j][Col("AF")] \in 0..AFOne

C4_Witness ==
    /\ MergedWritten
    /\ \E j \in DOMAIN merged :
          /\ Len(Members(raw, Label(merged[j]))) = 2
          /\ PresentSum(Members(raw, Label(merged[j])), "AF") > AFOne
          /\ merged[j][Col("AF")] = AFOne
    /\ \E j \in DOMAIN merged :
          /\ PresentSum(Members(raw, Label(merged[j])), "AF") < AFOne
          /\ merged[j][Col("AF")] < AFOne

(* C5: merged coverage, ref_count and alt_count are the sums over the      *)
(* group's members, the same for every ordering of the input and for every *)
(* two-stage merge of the input (merging the merged parts).                *)
C5_SumsOrderAndStageIndependent ==
    pc = "parsed" =>
        /\ \A j \in DOMAIN merged :
            LET calls == Members(raw, Label(merged[j]))
            IN /\ merged[j][Col("coverage")] = PresentSum(calls, "coverage")
               /\ merged[j][Col("ref_count")] = PresentSum(calls, "ref_count")
               /\ merged[j][Col("alt_count")] = PresentSum(calls, "alt_count")
        /\ \A p \in Orderings(DOMAIN raw) :
            \A t \in rm_vcf_redundancy([i \in DOMAIN raw |-> raw[p[i]]]) :
                Totals(t) = Totals(merged)
        /\ \A k \in 0..Len(raw) :
            \A t1 \in rm_vcf_redundancy(SubSeq(raw, 1, k)) :
            \A t2 \in rm_vcf_redundancy(SubSeq(raw, k + 1, Len(raw))) :
            \A t \in rm_vcf_redundancy(t1 \o t2) :
                Totals(t) = Totals(merged)

C5_Witness ==
    /\ pc = "parsed"
    /\ Len(raw) = 3
    /\ \E j \in DOMAIN merged :
          /\ Len(Members(raw, Label(merged[j]))) = 3
          /\ merged[j][Col("coverage")] = 8
          /\ merged[j][Col("alt_count")] = 8

(* C6: the merged read names of every locus group are, as a set, the union *)
(* of the members' read names, each name once; merging the merged string   *)
(* again gives the same set of names, each once.                           *)
C6_ReadNamesUnionIdempotent ==
    MergedWritten =>
        \A j \in DOMAIN merged :
            LET calls == Members(raw, Label(merged[j]))
                str == merged[j][Col("reads")]
            IN /\ Names(str) = UNION {Names(calls[i][Col("reads")]) : i \in DOMAIN calls}
               /\ Cardinality(Names(str)) = Len(Split(str))
               /\ \A again \in id_merge(<<str>>) :
                    /\ Names(again) = Names(str)
                    /\ Cardinality(Names(again)) = Len(Split(again))

C6_Witness ==
    /\ MergedWritten
    /\ \E j \in DOMAIN merged :
          LET calls == Members(raw, Label(merged[j]))
          IN /\ Len(calls) >= 2
             /\ \E i \in DOMAIN calls : Names(calls[i][Col("reads")]) # Names(merged[j][Col("reads")])
             /\ Cardinality(Names(merged[j][Col("reads")])) = 2
    /\ \E j \in DOMAIN merged : Len(Members(raw, Label(merged[j]))) = 1

C8_ShortLineRejected ==
    (\E i \in DOMAIN raw : Len(raw[i]) < NumFields) => pc \in {"start", "TypeError"}

(* C9: when the report file is absent after the annotator was invoked, the *)
(* filtering step ends the run with status 1 before the partition: the     *)
(* accepted output is not written and the audit log is left as it was.     *)
C9_MissingReportIsFatal ==
    [][(pc = "parsed" /\ "report" \notin files') =>
        /\ pc' = "exit1"
        /\ "ins_filtered" \notin files'
        /\ accepted' = accepted
        /\ auditLog' = auditLog
      ]_vars

C9_Witness ==
    /\ pc = "exit1"
    /\ merged # <<>>
    /\ "report" \notin files
    /\ "ins_filtered" \notin files

(* C10: over successive runs sharing the audit log, every step leaves the  *)
(* previous content of the log as a prefix of the new content; only a      *)
(* completed filtering step adds lines, and only lines of loci of its own  *)
(* merged table that have no repeat evidence.                              *)
C10_AuditLogAppendOnly ==
    [][/\ IsPrefix(auditLog, auditLog')
       /\ IF pc = "parsed" /\ pc' = "done"
          THEN \A a \in DOMAIN Added : \E j \in DOMAIN merged :
                  /\ Added[a] = <<Label(merged[j]), Reason>>
                  /\ Label(merged[j]) \notin ins_te_loci(report')
          ELSE Added = <<>>
      ]_vars

C10_Witness ==
    /\ runs = 2
    /\ pc = "done"
    /\ RemovedLoci(merged, ins_te_loci(report)) # {}
    /\ Len(auditLog) > Cardinality(RemovedLoci(merged, ins_te_loci(report)))

====
